---------------------------- MODULE Spec2Model ----------------------------
(***************************************************************************)
(* Retrieval-augmented answer engine of the Slum House Capital bot:        *)
(*   - scripts/ingest_docs.py : the offline ingestion job (documents ->    *)
(*     chunks -> index.faiss + meta.json);                                 *)
(*   - shc/rag.py             : the query side (_IndexState.ensure,        *)
(*     search, answer and the provider chain).                             *)
(*                                                                         *)
(* Representation.  A document's extracted text is the sequence of its     *)
(* whitespace-delimited words; every word is one character, so a chunk's   *)
(* text " ".join(words) is kept as its word sequence and its character     *)
(* form is JoinChars(words).  Modification times are counted in ticks,     *)
(* two ticks to the second, so that int(st_mtime) truncates.               *)
(* The chunking parameters and the snippet limit are scaled down from      *)
(* 1100 / 100 / 240.                                                       *)
(***************************************************************************)
EXTENDS Integers, Sequences, FiniteSets, TLC

(***************************************************************************)
(* Bounds of the model.                                                    *)
(***************************************************************************)
MaxWords == 3
MaxClock == 3
MaxEdits == 2
MaxRuns == 2
ChunkTokens == 2
Overlap == 1
SnippetLimit == 4
LexPrefix == 3
MaxK == 2
MaxCalls == 2
MaxInputWords == 6
MaxChunkTokens == 3
MaxHits == 3
MaxCitations == 4

\* int(st_mtime): whole seconds of a time in ticks.
IntSeconds(mtime) == mtime \div 2

Min(a, b) == IF a <= b THEN a ELSE b
Max(a, b) == IF a >= b THEN a ELSE b

(***************************************************************************)
(* The source root.  Two PDF paths, in the order sorted(root.rglob) gives. *)
(* Both stems sanitize to the same shortname.                              *)
(***************************************************************************)
PathA == [dir |-> "x", stem |-> <<"a">>]
PathB == [dir |-> "y", stem |-> <<"a", "-">>]
DocOrder == <<PathA, PathB>>
Docs == {DocOrder[i] : i \in 1..Len(DocOrder)}

Words == {"a", "b"}
\* The texts a document is given: none, one word, or MaxWords words (more
\* than one chunk).
Texts == {[i \in 1..n |-> w] : n \in {0, 1, MaxWords}, w \in Words}

Absent == [present |-> FALSE, size |-> 0, mtime |-> 0, text |-> <<>>]
FileOf(text, mtime) ==
  [present |-> TRUE, size |-> Len(text), mtime |-> mtime, text |-> text]

(***************************************************************************)
(* sanitize_shortname, on the characters of the stem.                      *)
(***************************************************************************)
AlnumChars == {"a", "b", "c", "d", "e", "m", "n", "o", "t", "u", "0", "1"}
DocumentName == <<"d", "o", "c", "u", "m", "e", "n", "t">>

RECURSIVE LStrip(_)
LStrip(s) == IF s /= <<>> /\ Head(s) = " " THEN LStrip(Tail(s)) ELSE s

RECURSIVE RStrip(_)
RStrip(s) ==
  IF s /= <<>> /\ s[Len(s)] = " " THEN RStrip(SubSeq(s, 1, Len(s) - 1)) ELSE s

Strip(s) == RStrip(LStrip(s))

\* "_".join(filter(None, cleaned.split("_"))): runs of "_" collapse, leading
\* and trailing ones vanish.
RECURSIVE CollapseUnderscores(_, _)
CollapseUnderscores(s, pending) ==
  IF s = <<>> THEN <<>>
  ELSE IF Head(s) = "_" THEN CollapseUnderscores(Tail(s), pending)
  ELSE LET rest == Tail(s)
           sep == IF rest /= <<>> /\ Head(rest) = "_" THEN TRUE ELSE FALSE
       IN (IF pending THEN <<"_">> ELSE <<>>) \o <<Head(s)>>
            \o CollapseUnderscores(rest, sep)

SanitizeShortname(stem) ==
  LET stripped == IF Strip(stem) = <<>> THEN DocumentName ELSE Strip(stem)
      cleaned == [i \in 1..Len(stripped) |->
                    IF stripped[i] \in AlnumChars THEN stripped[i] ELSE "_"]
      joined == CollapseUnderscores(cleaned, FALSE)
  IN IF joined = <<>> THEN DocumentName ELSE joined

(***************************************************************************)
(* chunk_text: the sliding window over the words.  start is 0-based.       *)
(***************************************************************************)
RECURSIVE ChunkFrom(_, _, _, _)
ChunkFrom(words, start, chunk_tokens, overlap) ==
  IF ~(start < Len(words)) THEN <<>>
  ELSE LET end == Min(Len(words), start + chunk_tokens)
           chunk_words == SubSeq(words, start + 1, end)
       IN IF chunk_words = <<>> THEN <<>>
          ELSE <<chunk_words>> \o
                 (IF end >= Len(words) THEN <<>>
                  ELSE ChunkFrom(words, end - overlap, chunk_tokens, overlap))

\* Windows that start where the one before ended.
ChunkTextWithoutOverlap(words, chunk_tokens, overlap) ==
  IF words = <<>> THEN <<>> ELSE ChunkFrom(words, 0, chunk_tokens, 0)

ChunkText(words, chunk_tokens, overlap) ==
  IF words = <<>> THEN <<>> ELSE ChunkFrom(words, 0, chunk_tokens, overlap)

\* " ".join(words), as characters.
RECURSIVE JoinChars(_)
JoinChars(words) ==
  IF words = <<>> THEN <<>>
  ELSE IF Len(words) = 1 THEN <<words[1]>>
  ELSE <<words[1], " ">> \o JoinChars(Tail(words))

SummarizeSnippet(words, limit) ==
  LET squished == JoinChars(words)
  IN IF Len(squished) <= limit THEN squished
     ELSE RStrip(SubSeq(squished, 1, limit - 1)) \o <<"...">>

(***************************************************************************)
(* Metadata payload (meta.json) and chunk records.                         *)
(***************************************************************************)
NoFiles == [d \in {} |-> [size |-> 0, mtime |-> 0]]
EmptyMeta == [updated |-> 0, files |-> NoFiles, chunks |-> <<>>]

\* The records with the ordinals counted from 1.
FreshChunksCountedFromOne(path, text) ==
  LET sections == ChunkText(text, ChunkTokens, Overlap)
      shortname == SanitizeShortname(path.stem)
  IN [i \in 1..Len(sections) |->
        [doc_path |-> path, shortname |-> shortname, chunk |-> i,
         text |-> sections[i],
         snippet |-> SummarizeSnippet(sections[i], SnippetLimit),
         tokens |-> Len(sections[i])]]

\* The records build_chunks makes for a freshly extracted document.
FreshChunks(path, text) ==
  LET sections == ChunkText(text, ChunkTokens, Overlap)
      shortname == SanitizeShortname(path.stem)
      all == [i \in 1..Len(sections) |->
               [doc_path |-> path, shortname |-> shortname, chunk |-> i - 1,
                text |-> sections[i],
                snippet |-> SummarizeSnippet(sections[i], SnippetLimit),
                tokens |-> Len(sections[i])]]
  IN SelectSeq(all, LAMBDA c : c.text /= <<>>)

\* sorted(stored_chunks, key=chunk): a stable insertion sort.
RECURSIVE InsertByChunk(_, _)
InsertByChunk(c, sorted) ==
  IF sorted = <<>> THEN <<c>>
  ELSE IF c.chunk < Head(sorted).chunk THEN <<c>> \o sorted
  ELSE <<Head(sorted)>> \o InsertByChunk(c, Tail(sorted))

RECURSIVE SortByChunk(_)
SortByChunk(s) ==
  IF s = <<>> THEN <<>>
  ELSE InsertByChunk(s[Len(s)], SortByChunk(SubSeq(s, 1, Len(s) - 1)))

ChunksOfDoc(chunks, path) == SelectSeq(chunks, LAMBDA c : c.doc_path = path)

\* reuse_chunks_if_possible without the doc_path filter on the stored chunks.
ReuseWithoutPathFilter(path, file, existing_meta) ==
  LET none == [ok |-> FALSE, chunks |-> <<>>]
  IN IF path \notin DOMAIN existing_meta.files THEN none
     ELSE LET file_meta == existing_meta.files[path]
              stored_chunks == existing_meta.chunks
          IN IF file_meta.size /= file.size THEN none
             ELSE IF file_meta.mtime /= IntSeconds(file.mtime) THEN none
             ELSE IF stored_chunks = <<>> THEN none
             ELSE [ok |-> TRUE,
                   chunks |-> [i \in 1..Len(stored_chunks) |->
                      LET c == SortByChunk(stored_chunks)[i]
                      IN [doc_path |-> path, shortname |-> c.shortname,
                          chunk |-> c.chunk, text |-> c.text,
                          snippet |-> c.snippet, tokens |-> c.tokens]]]

\* reuse_chunks_if_possible without the size comparison.
ReuseWithoutSizeCheck(path, file, existing_meta) ==
  LET none == [ok |-> FALSE, chunks |-> <<>>]
  IN IF path \notin DOMAIN existing_meta.files THEN none
     ELSE LET file_meta == existing_meta.files[path]
              stored_chunks == ChunksOfDoc(existing_meta.chunks, path)
          IN IF file_meta.mtime /= IntSeconds(file.mtime) THEN none
             ELSE IF stored_chunks = <<>> THEN none
             ELSE [ok |-> TRUE,
                   chunks |-> [i \in 1..Len(stored_chunks) |->
                      LET c == SortByChunk(stored_chunks)[i]
                      IN [doc_path |-> path, shortname |-> c.shortname,
                          chunk |-> c.chunk, text |-> c.text,
                          snippet |-> c.snippet, tokens |-> c.tokens]]]

\* reuse_chunks_if_possible: [ok |-> FALSE] stands for None.
\* Nothing is ever reused.
ReuseNothing(path, file, existing_meta) == [ok |-> FALSE, chunks |-> <<>>]

ReuseChunksIfPossible(path, file, existing_meta) ==
  LET none == [ok |-> FALSE, chunks |-> <<>>]
  IN IF path \notin DOMAIN existing_meta.files THEN none
     ELSE LET file_meta == existing_meta.files[path]
              stored_chunks == ChunksOfDoc(existing_meta.chunks, path)
          IN IF file_meta.size /= file.size THEN none
             ELSE IF file_meta.mtime /= IntSeconds(file.mtime) THEN none
             ELSE IF stored_chunks = <<>> THEN none
             ELSE [ok |-> TRUE,
                   chunks |-> [i \in 1..Len(stored_chunks) |->
                      LET c == SortByChunk(stored_chunks)[i]
                      IN [doc_path |-> path, shortname |-> c.shortname,
                          chunk |-> c.chunk, text |-> c.text,
                          snippet |-> c.snippet, tokens |-> c.tokens]]]

\* build_chunks carrying the stored chunks of a path that is gone.
ChunksKeepingRemoved(path, file, existing_meta) ==
  IF ~file.present THEN ChunksOfDoc(existing_meta.chunks, path)
  ELSE LET reused == ReuseChunksIfPossible(path, file, existing_meta)
       IN IF reused.ok THEN reused.chunks ELSE FreshChunks(path, file.text)

\* One iteration of build_chunks' loop, for a path iter_pdfs may yield.
ChunksForPath(path, file, existing_meta) ==
  IF ~file.present THEN <<>>
  ELSE LET reused == ReuseChunksIfPossible(path, file, existing_meta)
       IN IF reused.ok THEN reused.chunks ELSE FreshChunks(path, file.text)

LogForPath(path, file, existing_meta) ==
  IF ~file.present THEN "skipped"
  ELSE IF ReuseChunksIfPossible(path, file, existing_meta).ok THEN "reused"
  ELSE "extracted"

RECURSIVE BuildChunksFrom(_, _, _)
BuildChunksFrom(i, files, existing_meta) ==
  IF i > Len(DocOrder) THEN <<>>
  ELSE ChunksForPath(DocOrder[i], files[DocOrder[i]], existing_meta)
         \o BuildChunksFrom(i + 1, files, existing_meta)

BuildChunks(files, existing_meta) == BuildChunksFrom(1, files, existing_meta)

\* A fingerprint for every document that is there.
MetadataOfEveryFile(chunks, files, stamp) ==
  [updated |-> stamp,
   files |-> [p \in {d \in Docs : files[d].present} |->
                [size |-> files[p].size,
                 mtime |-> IntSeconds(files[p].mtime)]],
   chunks |-> chunks]

BuildMetadata(chunks, files, stamp) ==
  LET paths == {chunks[i].doc_path : i \in 1..Len(chunks)}
  IN [updated |-> stamp,
      files |-> [p \in paths |->
                   [size |-> files[p].size,
                    mtime |-> IntSeconds(files[p].mtime)]],
      chunks |-> chunks]

\* encode_chunks: one vector per chunk, in order; a vector is known by the
\* text it embeds.
EncodeChunks(chunks) == [i \in 1..Len(chunks) |-> chunks[i].text]

(***************************************************************************)
(* The query side: pure parts of shc/rag.py.                               *)
(***************************************************************************)
Threads == {"t1", "t2"}

\* Queries as characters: empty, blank, and a word.
Queries == {<<>>, <<" ">>, <<"a">>}
\* A style with a hint of its own, and one without.
Styles == {"bullets", "essay"}

\* _STYLE_HINTS.get(style, _STYLE_HINTS["concise"])
StyleHint(style) ==
  IF style \in {"concise", "bullets", "explainer"} THEN style ELSE "concise"

NoIndex == [loaded |-> FALSE, gen |-> 0, vecs |-> <<>>, load |-> 0]
NoChunkCache == [chunks |-> <<>>, load |-> 0]

\* Stand-in for the inner product of the normalized embeddings of the query
\* and of a chunk text, in thousandths: the words of the chunk the query has.
VecScore(q, vec) ==
  100 * Cardinality({i \in 1..Len(vec) : \E j \in 1..Len(q) : q[j] = vec[i]})

\* The positions 0..n-1 of the vectors by descending score, the lower position
\* first among equals.
RECURSIVE RankPositions(_, _, _)
RankPositions(vecs, q, left) ==
  IF left = {} THEN <<>>
  ELSE LET best == CHOOSE p \in left :
                     \A r \in left :
                       \/ VecScore(q, vecs[p + 1]) > VecScore(q, vecs[r + 1])
                       \/ /\ VecScore(q, vecs[p + 1]) = VecScore(q, vecs[r + 1])
                          /\ p <= r
       IN <<best>> \o RankPositions(vecs, q, left \ {best})

\* faiss IndexFlatIP.search(vector, top_k): top_k (position, score) pairs,
\* padded with position -1 when the index holds fewer vectors.
IndexSearch(vecs, q, top_k) ==
  LET ranked == RankPositions(vecs, q, 0..(Len(vecs) - 1))
  IN [i \in 1..top_k |->
        IF i <= Len(ranked)
        THEN [idx |-> ranked[i], score |-> VecScore(q, vecs[ranked[i] + 1])]
        ELSE [idx |-> -1, score |-> -1000000]]

\* _IndexState.as_chunk: [ok |-> FALSE] stands for None.  The chunk keeps, as
\* history, the load its record came from.
NoChunk ==
  [ok |-> FALSE, doc_path |-> PathA, shortname |-> <<>>, chunk |-> 0,
   text |-> <<>>, snippet |-> <<>>, score |-> 0, load |-> 0]

\* as_chunk's test of the position.
OutOfRange(chunk_cache, idx) == idx < 0 \/ idx >= Len(chunk_cache.chunks)

\* raw = self.chunk_cache[idx], made a Chunk.
ChunkAt(chunk_cache, idx, score) ==
  LET raw == chunk_cache.chunks[idx + 1]
  IN [ok |-> TRUE, doc_path |-> raw.doc_path, shortname |-> raw.shortname,
      chunk |-> raw.chunk, text |-> raw.text, snippet |-> raw.snippet,
      score |-> score, load |-> chunk_cache.load]

AsChunk(chunk_cache, idx, score) ==
  IF OutOfRange(chunk_cache, idx) THEN NoChunk
  ELSE ChunkAt(chunk_cache, idx, score)

\* Stand-in for rapidfuzz.fuzz.partial_ratio, in percent: the best alignment
\* of the shorter string inside the longer one, by matching characters.
PartialRatio(a, b) ==
  IF a = <<>> \/ b = <<>> THEN 0
  ELSE LET short == IF Len(a) <= Len(b) THEN a ELSE b
           long == IF Len(a) <= Len(b) THEN b ELSE a
           matches(o) ==
             Cardinality({i \in 1..Len(short) : short[i] = long[o + i]})
           best == CHOOSE m \in {matches(o) : o \in 0..(Len(long) - Len(short))} :
                     \A o \in 0..(Len(long) - Len(short)) : matches(o) <= m
       IN (100 * best) \div Len(short)

\* score + 0.2 * boost, in thousandths: boost is partial_ratio / 100.
\* The vector score alone.
VectorScoreOnly(q, chunk) == chunk.score

FusedScore(q, chunk) ==
  chunk.score
    + 2 * PartialRatio(q, SubSeq(JoinChars(chunk.text), 1,
                                 Min(LexPrefix, Len(JoinChars(chunk.text)))))

\* list.sort(key=score, reverse=True): stable.
RECURSIVE InsertByScore(_, _)
InsertByScore(c, sorted) ==
  IF sorted = <<>> THEN <<c>>
  ELSE IF c.score >= Head(sorted).score THEN <<c>> \o sorted
  ELSE <<Head(sorted)>> \o InsertByScore(c, Tail(sorted))

RECURSIVE SortByScore(_)
SortByScore(s) ==
  IF s = <<>> THEN <<>>
  ELSE InsertByScore(Head(s), SortByScore(Tail(s)))

Rerank(q, chunks) ==
  SortByScore([i \in 1..Len(chunks) |->
                 [chunks[i] EXCEPT !.score = FusedScore(q, chunks[i])]])

\* reranked[:k]
FirstK(s, k) == SubSeq(s, 1, Min(k, Len(s)))

(***************************************************************************)
(* Citations.  A text is a sequence of tokens; a label "[shortname §n]" is *)
(* one token, so "label in text" is membership.                            *)
(***************************************************************************)
Tok(t) == [t |-> t, shortname |-> <<>>, n |-> 0]
Label(chunk) == [t |-> "label", shortname |-> chunk.shortname, n |-> chunk.chunk + 1]

IsSpace(tok) == tok.t \in {" ", "\n"}

RECURSIVE StripTokens(_)
StripTokens(s) ==
  IF s = <<>> THEN s
  ELSE IF IsSpace(Head(s)) THEN StripTokens(Tail(s))
  ELSE IF IsSpace(s[Len(s)]) THEN StripTokens(SubSeq(s, 1, Len(s) - 1))
  ELSE s

InText(tok, text) == \E i \in 1..Len(text) : text[i] = tok

\* Path(doc_path).name
PathName(path) == path.stem \o <<".", "p", "d", "f">>

RECURSIVE BuildCitationsFrom(_, _)
BuildCitationsFrom(chunks, seen) ==
  IF chunks = <<>> THEN <<>>
  ELSE LET c == Head(chunks)
       IN IF Label(c) \in seen THEN BuildCitationsFrom(Tail(chunks), seen)
          ELSE <<[doc |-> PathName(c.doc_path), shortname |-> c.shortname,
                  chunk |-> c.chunk, label |-> Label(c)]>>
                 \o BuildCitationsFrom(Tail(chunks), seen \cup {Label(c)})

\* A citation for every chunk, repeated labels included.
CitationPerChunk(chunks) ==
  [i \in 1..Len(chunks) |->
     [doc |-> PathName(chunks[i].doc_path), shortname |-> chunks[i].shortname,
      chunk |-> chunks[i].chunk, label |-> Label(chunks[i])]]

BuildCitations(chunks) == BuildCitationsFrom(chunks, {})

RECURSIVE CommaJoin(_)
CommaJoin(labels) ==
  IF labels = <<>> THEN <<>>
  ELSE IF Len(labels) = 1 THEN <<labels[1]>>
  ELSE <<labels[1], Tok(","), Tok(" ")>> \o CommaJoin(Tail(labels))

\* The text as it came.
CitationsNotEnsured(text, citations) == text

EnsureCitations(text, citations) ==
  LET labels == [i \in 1..Len(citations) |-> citations[i].label]
      missing == SelectSeq(labels, LAMBDA l : ~InText(l, text))
      suffix == <<Tok(" "), Tok("Sources:"), Tok(" ")>> \o CommaJoin(missing)
  IN IF missing = <<>> THEN text
     ELSE IF InText(Tok("\n"), text) THEN text \o <<Tok("\n")>> \o suffix
     ELSE text \o <<Tok(" ")>> \o suffix

\* A citation whose "label" is absent or empty.
NoLabel == Tok("")

RECURSIVE CompactFrom(_, _)
CompactFrom(citations, seen) ==
  IF citations = <<>> THEN <<>>
  ELSE LET label == Head(citations).label
       IN IF label = NoLabel \/ label \in seen
          THEN CompactFrom(Tail(citations), seen)
          ELSE <<label>> \o CompactFrom(Tail(citations), seen \cup {label})

\* Every label is kept, duplicates included.
CompactKeepingDuplicates(citations) ==
  SelectSeq([i \in 1..Len(citations) |-> citations[i].label],
            LAMBDA l : l /= NoLabel)

CompactCitationLabels(citations) == CompactFrom(citations, {})

FormatSourceLine(citations) ==
  LET labels == CompactCitationLabels(citations)
  IN IF labels = <<>> THEN <<>>
     ELSE <<Tok("Sources:"), Tok(" ")>> \o CommaJoin(labels)

SentinelText == <<Tok("No strong match")>>

\* What a call hands back: a list (search), a dict (answer) or an exception.
NoDict == [text |-> <<>>, citations |-> <<>>, chunks |-> <<>>]
ListResult(hits) ==
  [kind |-> "list", why |-> "", list |-> hits, dict |-> NoDict]
AnswerResult(text, citations, hits) ==
  [kind |-> "dict", why |-> "", list |-> <<>>,
   dict |-> [text |-> text, citations |-> citations, chunks |-> hits]]
Raised(why) == [kind |-> "raise", why |-> why, list |-> <<>>, dict |-> NoDict]
NoResult == [kind |-> "none", why |-> "", list |-> <<>>, dict |-> NoDict]

\* The literal answer() returns for an empty query, no hits, or no text.
SentinelWithoutChunks ==
  [kind |-> "dict", why |-> "", list |-> <<>>,
   dict |-> [text |-> SentinelText, citations |-> <<>>]]

Sentinel == AnswerResult(SentinelText, <<>>, <<>>)

\* What a generation backend may send back for a prompt: nothing usable
\* (failure, timeout, error status), or a text: blank, plain, of several
\* lines, or citing the first label of the context.
ProviderOutputs(hits) ==
  {<<Tok(" ")>>, <<Tok("w")>>, <<Tok("w"), Tok("\n"), Tok("w"), Tok(" ")>>,
   <<Tok("w"), Tok(" "), Label(hits[1])>>}

(***************************************************************************)
(* State.                                                                  *)
(***************************************************************************)
VARIABLES
  docs,           \* the source root: path -> file (Absent when not there)
  clock,          \* ticks elapsed; stamps the documents' mtimes
  nedits,         \* writes and removals of documents so far
  indexFile,      \* index.faiss: [state, mtime, gen, vecs]
  metaFile,       \* meta.json:   [state, mtime, payload]
  ipc,            \* position of the ingestion job
  runs,           \* ingestion runs started so far
  existing_meta,  \* ingest(): existing_meta
  ichunks,        \* ingest(): chunks
  ilog,           \* what build_chunks logged per path in this run
  lastPayload,    \* history: the payload the last completed run persisted
  lastDocs,       \* history: the source root as that run found it
  aborted,        \* history: the last run, if it was interrupted and the
                  \* documents are as it found them
  encoded,        \* history: the chunks this run passed to model.encode
  State,          \* rag._STATE: index, meta, chunk_cache, the cached mtimes
  lock,           \* rag._STATE.lock: its holder, or "free"
  th,             \* the callers of search() / answer(), one record each
  ncalls,         \* calls started so far
  nloads,         \* loads ensure() has started so far
  config,         \* rag.py's module constants: which providers are set up
  fcall,          \* a function called on its own: arguments and value
  CLIENT,         \* router.CLIENT: whether a client is configured
  CHANNEL_CONFIG, \* router._CHANNEL_CONFIG: channel key -> channel id
  sends,          \* channel id -> the contents channel.send() was given
  rcall           \* the call of route_alert() / safe_send() under way

docVars == <<docs, clock, nedits>>
diskVars == <<indexFile, metaFile>>
jobVars == <<ipc, runs, existing_meta, ichunks, ilog>>
histVars == <<lastPayload, lastDocs, aborted, encoded>>
queryVars == <<State, lock, th, ncalls, nloads, config>>
alertVars == <<CLIENT, CHANNEL_CONFIG, sends, rcall>>
vars ==
  <<docVars, diskVars, jobVars, histVars, queryVars, fcall, alertVars>>

NoIndexFile == [state |-> "none", mtime |-> 0, gen |-> 0, vecs |-> <<>>]
NoMetaFile == [state |-> "none", mtime |-> 0, payload |-> EmptyMeta]

\* Every write of an artifact leaves a modification time of its own: the
\* k-th of the four writes of a run.
Stamp(run, k) == 4 * (run - 1) + k

NoLog == [d \in Docs |-> "skipped"]

\* No interrupted run is waiting to be re-run.
NoAbort ==
  [active |-> FALSE, torn |-> FALSE, docs |-> [d \in Docs |-> Absent],
   meta |-> EmptyMeta]

(***************************************************************************)
(* The environment: documents are written and removed between runs.        *)
(***************************************************************************)
WriteDoc ==
  /\ ipc = "idle"
  /\ nedits < MaxEdits
  /\ nedits' = nedits + 1
  /\ \E d \in Docs, t \in Texts, now \in (clock + 1)..MaxClock :
       /\ docs' = [docs EXCEPT ![d] = FileOf(t, now)]
       /\ clock' = now
  /\ aborted' = NoAbort
  /\ UNCHANGED <<diskVars, jobVars, lastPayload, lastDocs, encoded, queryVars,
                 fcall, alertVars>>

RemoveDoc ==
  /\ ipc = "idle"
  /\ nedits < MaxEdits
  /\ nedits' = nedits + 1
  /\ \E d \in Docs :
       /\ docs[d].present
       /\ docs' = [docs EXCEPT ![d] = Absent]
  /\ aborted' = NoAbort
  /\ UNCHANGED <<clock, diskVars, jobVars, lastPayload, lastDocs, encoded,
                 queryVars, fcall, alertVars>>

(***************************************************************************)
(* ingest(), step by step.                                                 *)
(***************************************************************************)
\* load_existing_meta: {} when meta.json is missing or does not parse.
LoadExistingMeta(file) == IF file.state = "ok" THEN file.payload ELSE EmptyMeta

\* MaxRuns runs, and one more to re-run an interrupted one.
IngestStart ==
  /\ ipc = "idle"
  /\ runs < MaxRuns + (IF aborted.active THEN 1 ELSE 0)
  /\ runs' = runs + 1
  /\ existing_meta' = LoadExistingMeta(metaFile)
  /\ ichunks' = <<>>
  /\ ilog' = NoLog
  /\ encoded' = <<>>
  /\ ipc' = "loaded"
  /\ UNCHANGED <<docVars, diskVars, lastPayload, lastDocs, aborted, queryVars,
                 fcall, alertVars>>

IngestBuildChunks ==
  /\ ipc = "loaded"
  /\ ichunks' = BuildChunks(docs, existing_meta)
  /\ ilog' = [d \in Docs |-> LogForPath(d, docs[d], existing_meta)]
  /\ ipc' = "built"
  /\ UNCHANGED <<runs, existing_meta, docVars, diskVars, histVars, queryVars,
                 fcall, alertVars>>

\* No chunks: index.faiss is unlinked ...
IngestUnlinkIndex ==
  /\ ipc = "built"
  /\ ichunks = <<>>
  /\ indexFile' = NoIndexFile
  /\ ipc' = "unlinked"
  /\ UNCHANGED <<metaFile, runs, existing_meta, ichunks, ilog, docVars,
                 histVars, queryVars, fcall, alertVars>>

\* ... or every chunk of the run goes to encode_chunks, and save_index opens
\* index.faiss for writing ...
IngestSaveIndexBegin ==
  /\ ipc = "built"
  /\ ichunks /= <<>>
  /\ encoded' = ichunks
  /\ indexFile' = [state |-> "partial", mtime |-> Stamp(runs, 1), gen |-> runs,
                   vecs |-> <<>>]
  /\ ipc' = "iwriting"
  /\ UNCHANGED <<metaFile, runs, existing_meta, ichunks, ilog, docVars,
                 lastPayload, lastDocs, aborted, queryVars, fcall, alertVars>>

\* ... and completes it.
IngestSaveIndexEnd ==
  /\ ipc = "iwriting"
  /\ indexFile' = [state |-> "ok", mtime |-> Stamp(runs, 2), gen |-> runs,
                   vecs |-> EncodeChunks(ichunks)]
  /\ ipc' = "isaved"
  /\ UNCHANGED <<metaFile, runs, existing_meta, ichunks, ilog, docVars,
                 histVars, queryVars, fcall, alertVars>>

\* persist_metadata opens meta.json with "w": the file is truncated ...
IngestPersistBegin ==
  /\ ipc \in {"unlinked", "isaved"}
  /\ metaFile' = [state |-> "partial", mtime |-> Stamp(runs, 3),
                  payload |-> EmptyMeta]
  /\ ipc' = "mwriting"
  /\ UNCHANGED <<indexFile, runs, existing_meta, ichunks, ilog, docVars,
                 histVars, queryVars, fcall, alertVars>>

\* ... and then holds the payload.
IngestPersistEnd ==
  /\ ipc = "mwriting"
  /\ metaFile' = [state |-> "ok", mtime |-> Stamp(runs, 4),
                  payload |-> BuildMetadata(ichunks, docs, runs)]
  /\ ipc' = "done"
  /\ UNCHANGED <<indexFile, runs, existing_meta, ichunks, ilog, docVars,
                 histVars, queryVars, fcall, alertVars>>

IngestReturn ==
  /\ ipc = "done"
  /\ ipc' = "idle"
  /\ lastPayload' = metaFile.payload
  /\ lastDocs' = docs
  /\ aborted' = NoAbort
  /\ UNCHANGED <<runs, existing_meta, ichunks, ilog, docVars, diskVars,
                 encoded, queryVars, fcall, alertVars>>

\* The job is killed before it returns; what it found is remembered.
IngestInterrupt ==
  /\ ipc \in {"loaded", "built", "unlinked", "iwriting", "isaved", "mwriting"}
  /\ ipc' = "idle"
  /\ aborted' = [active |-> TRUE, torn |-> ipc = "mwriting", docs |-> docs,
                 meta |-> existing_meta]
  /\ UNCHANGED <<runs, existing_meta, ichunks, ilog, docVars, diskVars,
                 lastPayload, lastDocs, encoded, queryVars, fcall, alertVars>>

IngestStep ==
  \/ IngestStart
  \/ IngestBuildChunks
  \/ IngestUnlinkIndex
  \/ IngestSaveIndexBegin
  \/ IngestSaveIndexEnd
  \/ IngestPersistBegin
  \/ IngestPersistEnd
  \/ IngestReturn

(***************************************************************************)
(* The query process.                                                      *)
(***************************************************************************)
IdleThread ==
  [pc |-> "idle", op |-> "none", q |-> <<>>, k |-> 0, style |-> "concise",
   top_k |-> 0, indices |-> <<>>, chunks |-> <<>>, hits |-> <<>>,
   result |-> NoResult,
   \* history: the loads the call read the chunk list and the index of,
   \* what it did, and the provider attempts in order
   lenLoad |-> 0, idxLoad |-> 0, embedded |-> FALSE, scanned |-> FALSE,
   attempts |-> <<>>,
   \* history: the body of the last reply a provider gave
   provided |-> <<>>,
   \* history: the call began after a completed run that found no chunk
   afterEmptyRun |-> FALSE]

InitState ==
  [index |-> NoIndex, meta |-> EmptyMeta, chunk_cache |-> NoChunkCache,
   index_mtime |-> 0, meta_mtime |-> 0]

\* search() returns reranked[:k]; answer() goes on with the hits.
AfterSearch(t, hits) ==
  IF th[t].op = "search"
  THEN [th[t] EXCEPT !.pc = "ret", !.result = ListResult(hits)]
  ELSE IF hits = <<>>
  THEN [th[t] EXCEPT !.pc = "ret", !.result = Sentinel]
  ELSE [th[t] EXCEPT !.pc = "primary", !.hits = hits]

\* _ensure_ready returned False: search() returns [].
NotReadyIgnored(t) == [th[t] EXCEPT !.pc = "topk"]

NotReady(t) == AfterSearch(t, <<>>)

\* ensure() finds an artifact missing.
NotCleared(state) == state

Cleared(state) ==
  [state EXCEPT !.index = NoIndex, !.meta = EmptyMeta,
                !.chunk_cache = NoChunkCache]

\* An exception leaves search() and, through it, answer().
Raise(t, why) == [th[t] EXCEPT !.pc = "ret", !.result = Raised(why)]

\* The last ingestion run has completed and found no chunk.
EmptyRunDone ==
  /\ ipc = "idle"
  /\ runs > 0
  /\ lastPayload.updated = runs
  /\ lastPayload.chunks = <<>>

Call(t, ops, styles, ks) ==
  /\ th[t].pc = "idle"
  /\ ncalls < MaxCalls
  /\ ncalls' = ncalls + 1
  /\ \E op \in ops, q \in Queries, k \in ks, style \in styles :
       LET query == IF op = "answer" THEN Strip(q) ELSE q
           me == [IdleThread EXCEPT !.op = op, !.q = query, !.k = k,
                                    !.style = IF op = "answer" THEN style
                                              ELSE "concise",
                                    !.afterEmptyRun = EmptyRunDone]
       IN th' = [th EXCEPT ![t] =
                   IF Strip(query) /= <<>> THEN [me EXCEPT !.pc = "ensure"]
                   ELSE IF op = "answer"
                   THEN [me EXCEPT !.pc = "ret", !.result = Sentinel]
                   ELSE [me EXCEPT !.pc = "ret", !.result = ListResult(<<>>)]]
  /\ UNCHANGED <<State, lock, nloads, config, docVars, diskVars, jobVars,
                 histVars, fcall, alertVars>>

\* _meta_changed
MetaChanged ==
  LET index_stat == IF indexFile.state /= "none" THEN indexFile.mtime ELSE 0
      meta_stat == IF metaFile.state /= "none" THEN metaFile.mtime ELSE 0
  IN index_stat /= State.index_mtime \/ meta_stat /= State.meta_mtime

\* ensure(): the lock is taken; an artifact is missing, nothing changed, or
\* a load begins.
\* A lock that lets everyone in.
LockIgnored == TRUE

\* with self.lock: the caller goes on once nobody holds the lock.
LockFree == lock = "free"

EnsureEnter(t) ==
  /\ th[t].pc = "ensure"
  /\ LockFree
  /\ IF indexFile.state = "none" \/ metaFile.state = "none"
     THEN /\ State' = Cleared(State)
          /\ th' = [th EXCEPT ![t].pc = "ready"]
          /\ UNCHANGED <<lock, nloads>>
     ELSE IF State.index.loaded /\ ~MetaChanged
     THEN /\ th' = [th EXCEPT ![t].pc = "ready"]
          /\ UNCHANGED <<State, lock, nloads>>
     ELSE /\ lock' = t
          /\ nloads' = nloads + 1
          /\ th' = [th EXCEPT ![t].pc = "readindex"]
          /\ UNCHANGED State
  /\ UNCHANGED <<ncalls, config, docVars, diskVars, jobVars, histVars, fcall, alertVars>>

\* self.index = faiss.read_index(...): raises on a missing or incomplete file.
EnsureReadIndex(t) ==
  /\ th[t].pc = "readindex"
  /\ IF indexFile.state = "ok"
     THEN /\ State' = [State EXCEPT !.index =
                         [loaded |-> TRUE, gen |-> indexFile.gen,
                          vecs |-> indexFile.vecs, load |-> nloads]]
          /\ th' = [th EXCEPT ![t].pc = "readmeta"]
          /\ UNCHANGED lock
     ELSE /\ lock' = "free"
          /\ th' = [th EXCEPT ![t] = NotReady(t)]
          /\ UNCHANGED State
  /\ UNCHANGED <<ncalls, nloads, config, docVars, diskVars, jobVars,
                 histVars, fcall, alertVars>>

\* self.meta = json.load(fh); self.chunk_cache = self.meta.get("chunks", [])
EnsureReadMeta(t) ==
  /\ th[t].pc = "readmeta"
  /\ IF metaFile.state = "ok"
     THEN /\ State' = [State EXCEPT !.meta = metaFile.payload,
                         !.chunk_cache = [chunks |-> metaFile.payload.chunks,
                                          load |-> nloads]]
          /\ th' = [th EXCEPT ![t].pc = "stat"]
          /\ UNCHANGED lock
     ELSE /\ lock' = "free"
          /\ th' = [th EXCEPT ![t] = NotReady(t)]
          /\ UNCHANGED State
  /\ UNCHANGED <<ncalls, nloads, config, docVars, diskVars, jobVars,
                 histVars, fcall, alertVars>>

\* The two stat() calls that cache the modification times.
EnsureStat(t) ==
  /\ th[t].pc = "stat"
  /\ lock' = "free"
  /\ IF indexFile.state /= "none" /\ metaFile.state /= "none"
     THEN /\ State' = [State EXCEPT !.index_mtime = indexFile.mtime,
                                    !.meta_mtime = metaFile.mtime]
          /\ th' = [th EXCEPT ![t].pc = "ready"]
     ELSE /\ th' = [th EXCEPT ![t] = NotReady(t)]
          /\ UNCHANGED State
  /\ UNCHANGED <<ncalls, nloads, config, docVars, diskVars, jobVars,
                 histVars, fcall, alertVars>>

\* _ensure_ready, after ensure() returned.
ReadyCheck(t) ==
  /\ th[t].pc = "ready"
  /\ th' = [th EXCEPT ![t] =
              IF ~State.index.loaded \/ State.chunk_cache.chunks = <<>>
              THEN NotReady(t)
              ELSE [th[t] EXCEPT !.pc = "topk"]]
  /\ UNCHANGED <<State, lock, ncalls, nloads, config, docVars, diskVars,
                 jobVars, histVars, fcall, alertVars>>

\* vector = embed(query); assert index is not None; top_k = min(max(2k, k), len)
SearchTopK(t) ==
  /\ th[t].pc = "topk"
  /\ th' = [th EXCEPT ![t] =
              IF ~State.index.loaded
              THEN [Raise(t, "index is None") EXCEPT !.embedded = TRUE]
              ELSE [th[t] EXCEPT
                      !.pc = "scan", !.embedded = TRUE,
                      !.top_k = Min(Max(th[t].k * 2, th[t].k),
                                    Len(State.chunk_cache.chunks)),
                      !.lenLoad = State.chunk_cache.load]]
  /\ UNCHANGED <<State, lock, ncalls, nloads, config, docVars, diskVars,
                 jobVars, histVars, fcall, alertVars>>

\* scores, indices = _STATE.index.search(vector, top_k)
IndexScan(t) ==
  /\ th[t].pc = "scan"
  /\ \/ /\ ~State.index.loaded
        /\ th' = [th EXCEPT ![t] = Raise(t, "index is None")]
     \/ /\ State.index.loaded
        /\ th[t].top_k = 0
        \* faiss builds differ: k = 0 is refused or gives no candidate.
        /\ \/ th' = [th EXCEPT ![t] = Raise(t, "faiss k")]
           \/ th' = [th EXCEPT ![t] = [th[t] EXCEPT
                       !.pc = "collect", !.scanned = TRUE, !.indices = <<>>,
                       !.idxLoad = State.index.load]]
     \/ /\ State.index.loaded
        /\ th[t].top_k > 0
        /\ th' = [th EXCEPT ![t] = [th[t] EXCEPT
                    !.pc = "collect", !.scanned = TRUE,
                    !.indices = IndexSearch(State.index.vecs, th[t].q,
                                            th[t].top_k),
                    !.idxLoad = State.index.load]]
  /\ UNCHANGED <<State, lock, ncalls, nloads, config, docVars, diskVars,
                 jobVars, histVars, fcall, alertVars>>

\* One turn of the loop over zip(indices[0], scores[0]): as_chunk tests the
\* position against the chunk list and returns None, or goes on to read.
Collect(t) ==
  /\ th[t].pc = "collect"
  /\ th[t].indices /= <<>>
  /\ th' = [th EXCEPT ![t] =
              IF OutOfRange(State.chunk_cache, Head(th[t].indices).idx)
              THEN [th[t] EXCEPT !.indices = Tail(th[t].indices)]
              ELSE [th[t] EXCEPT !.pc = "aschunk"]]
  /\ UNCHANGED <<State, lock, ncalls, nloads, config, docVars, diskVars,
                 jobVars, histVars, fcall, alertVars>>

\* raw = self.chunk_cache[idx]: the list is read again, without the lock; a
\* list that a reload has made shorter since the test gives IndexError.
ReadChunk(t) ==
  /\ th[t].pc = "aschunk"
  /\ LET cand == Head(th[t].indices)
     IN th' = [th EXCEPT ![t] =
                 IF cand.idx >= Len(State.chunk_cache.chunks)
                 THEN Raise(t, "IndexError")
                 ELSE [th[t] EXCEPT
                         !.pc = "collect",
                         !.indices = Tail(th[t].indices),
                         !.chunks = Append(th[t].chunks,
                                           ChunkAt(State.chunk_cache, cand.idx,
                                                   cand.score))]]
  /\ UNCHANGED <<State, lock, ncalls, nloads, config, docVars, diskVars,
                 jobVars, histVars, fcall, alertVars>>

\* reranked = _rerank(query, chunks); return reranked[:k]
SearchFinish(t) ==
  /\ th[t].pc = "collect"
  /\ th[t].indices = <<>>
  /\ th' = [th EXCEPT ![t] =
              AfterSearch(t, FirstK(Rerank(th[t].q, th[t].chunks), th[t].k))]
  /\ UNCHANGED <<State, lock, ncalls, nloads, config, docVars, diskVars,
                 jobVars, histVars, fcall, alertVars>>

\* answer(), once _synthesise has returned text ("" when no provider gave any).
AnsweredWithEmptyText(me, text) ==
  [me EXCEPT !.pc = "ret", !.result =
     AnswerResult(StripTokens(text), BuildCitations(me.hits), me.hits)]

Answered(me, text) ==
  IF text = <<>> THEN [me EXCEPT !.pc = "ret", !.result = Sentinel]
  ELSE LET citations == BuildCitations(me.hits)
           cleaned_text == StripTokens(text)
       IN [me EXCEPT !.pc = "ret", !.result =
             AnswerResult(IF citations /= <<>>
                          THEN EnsureCitations(cleaned_text, citations)
                          ELSE cleaned_text,
                          citations, me.hits)]

\* One request to a backend: it fails (exception, timeout, error status) or
\* comes back with a body; the call returns the stripped text, or "".
Replies(hits) ==
  {[ok |-> FALSE, text |-> <<>>]}
    \cup {[ok |-> TRUE, text |-> out] : out \in ProviderOutputs(hits)}

Reply(reply) == IF reply.ok THEN StripTokens(reply.text) ELSE <<>>

Attempt(me, provider, reply) ==
  [me EXCEPT !.attempts = Append(@, [provider |-> provider, outcome |->
     IF ~reply.ok THEN "failed"
     ELSE IF Reply(reply) = <<>> THEN "empty" ELSE "text"]),
             !.provided = IF reply.ok THEN reply.text ELSE @]

\* _synthesise after _call_nemotron: its text, the secondary provider, or "".
SecondaryRegardless(me, nemotron) ==
  IF config.openai_key /\ config.openai_lib
  THEN [me EXCEPT !.pc = "secondary"]
  ELSE Answered(me, nemotron)

AfterPrimary(me, nemotron) ==
  IF nemotron /= <<>> THEN Answered(me, nemotron)
  ELSE IF config.openai_key /\ config.openai_lib
  THEN [me EXCEPT !.pc = "secondary"]
  ELSE Answered(me, <<>>)

\* _call_nemotron: no request without a base URL; else one POST, and "" on
\* any exception.
CallNemotron(t) ==
  /\ th[t].pc = "primary"
  /\ IF ~config.ollama_url
     THEN th' = [th EXCEPT ![t] = AfterPrimary(th[t], <<>>)]
     ELSE \E reply \in Replies(th[t].hits) :
            th' = [th EXCEPT ![t] =
                     AfterPrimary(Attempt(th[t], "primary", reply),
                                  Reply(reply))]
  /\ UNCHANGED <<State, lock, ncalls, nloads, config, docVars, diskVars,
                 jobVars, histVars, fcall, alertVars>>

\* _call_openai: one request, "" on any exception.
CallOpenAI(t) ==
  /\ th[t].pc = "secondary"
  /\ \E reply \in Replies(th[t].hits) :
       th' = [th EXCEPT ![t] =
                Answered(Attempt(th[t], "secondary", reply), Reply(reply))]
  /\ UNCHANGED <<State, lock, ncalls, nloads, config, docVars, diskVars,
                 jobVars, histVars, fcall, alertVars>>

\* The caller has its result.
Return(t) ==
  /\ th[t].pc = "ret"
  /\ th' = [th EXCEPT ![t] = IdleThread]
  /\ UNCHANGED <<State, lock, ncalls, nloads, config, docVars, diskVars,
                 jobVars, histVars, fcall, alertVars>>

SearchStep(t) ==
  \/ EnsureEnter(t)
  \/ EnsureReadIndex(t)
  \/ EnsureReadMeta(t)
  \/ EnsureStat(t)
  \/ ReadyCheck(t)
  \/ SearchTopK(t)
  \/ IndexScan(t)
  \/ Collect(t)
  \/ ReadChunk(t)
  \/ SearchFinish(t)
  \/ Return(t)

QueryStep(t) ==
  \/ SearchStep(t)
  \/ CallNemotron(t)
  \/ CallOpenAI(t)

(***************************************************************************)
(* The alert router (slum/alerts/router.py).                               *)
(***************************************************************************)
\* Python's None, for a key a dict lacks and for a value that is null.
None == "<None>"

\* ALERT_TYPE_TO_KEY.
ALERT_TYPE_TO_KEY ==
  [day |-> "day_trade_alerts", swing |-> "swing_alerts",
   leaps |-> "leaps_alerts", long_term |-> "long_term_alerts",
   news |-> "news_feed"]

AlertTypes == DOMAIN ALERT_TYPE_TO_KEY

\* The alert channels of CHANNEL_KEYS (ops_logs takes no alert).
ChannelKeys == {ALERT_TYPE_TO_KEY[a] : a \in AlertTypes}

\* The channel ids a configuration names; 0 stands for None, both of which
\* `not channel_id` takes for unset.
ChannelIdOfKey ==
  [k \in ChannelKeys |->
     CASE k = "day_trade_alerts" -> 111
       [] k = "swing_alerts" -> 222
       [] k = "leaps_alerts" -> 333
       [] k = "long_term_alerts" -> 444
       [] k = "news_feed" -> 555]

ChannelIds == {ChannelIdOfKey[k] : k \in ChannelKeys}

\* ChannelConfig: every key names its channel or none.
ChannelConfigs ==
  {[k \in ChannelKeys |-> IF k \in set THEN ChannelIdOfKey[k] ELSE 0] :
     set \in SUBSET ChannelKeys}

NoChannels == [k \in ChannelKeys |-> 0]

\* str.lower() over the types the alerts here carry.
Lower(s) ==
  CASE s = "DAY" -> "day"
    [] s = "News" -> "news"
    [] OTHER -> s

\* x or y
Or(x, y) == IF x = None \/ x = "" THEN y ELSE x

\* An alert without a type is a day alert.
AlertTypeDayWhenMissing(alert) == Lower(Or(alert.type, "day"))

\* alert_type = (alert.get("type") or "").lower()
AlertTypeOf(alert) == Lower(Or(alert.type, ""))

\* content = alert.get("content") or alert.get("message") or ""
ContentOf(alert) == Or(Or(alert.content, alert.message), "")

\* Every alert is routed to the news channel.
NewsChannelOf(channel_config, alert_type) == channel_config["news_feed"]

\* get_channel_config().get(ALERT_TYPE_TO_KEY[alert_type])
ChannelOf(channel_config, alert_type) ==
  channel_config[ALERT_TYPE_TO_KEY[alert_type]]

\* The exception classes safe_send() meets, each with its base class.
BaseOf ==
  [HTTPException |-> "Exception", DiscordServerError |-> "HTTPException",
   Forbidden |-> "HTTPException", NotFound |-> "HTTPException",
   RuntimeError |-> "Exception", ValueError |-> "Exception",
   Exception |-> "BaseException"]

RECURSIVE IsInstance(_, _)
IsInstance(exc, classes) ==
  \/ exc \in classes
  \/ exc \in DOMAIN BaseOf /\ IsInstance(BaseOf[exc], classes)

\* The except clause of safe_send() that takes an exception: the first, in
\* the order written, whose classes the exception is an instance of.
ExceptClause(exc) ==
  IF IsInstance(exc, {"HTTPException", "DiscordServerError"}) THEN "api"
  ELSE IF IsInstance(exc, {"Forbidden", "NotFound"}) THEN "permission"
  ELSE IF IsInstance(exc, {"Exception"}) THEN "unexpected"
  ELSE "uncaught"

RECURSIVE Pow2(_)
Pow2(n) == IF n = 0 THEN 1 ELSE 2 * Pow2(n - 1)

\* The delay grows by base_delay with every attempt.
LinearBackoff(base_delay, attempt) == base_delay * attempt

\* base_delay * (2 ** (attempt - 1))
Backoff(base_delay, attempt) == base_delay * Pow2(attempt - 1)

\* The defaults of safe_send()'s max_attempts and base_delay.
DefaultMaxAttempts == 4
DefaultBaseDelay == 1

Returns(value) == [kind |-> "return", value |-> value]
Raises(exc) == [kind |-> "raise", value |-> exc]

NoAlert == [type |-> None, content |-> None, message |-> None]

\* No call of the router is under way.
NoSend ==
  [pc |-> "idle", op |-> "none", alert |-> NoAlert, channel_id |-> 0,
   content |-> "", max_attempts |-> 0, base_delay |-> 0, attempt |-> 0,
   last_error |-> None, thrown |-> None, slept |-> <<>>,
   result |-> Returns(None)]

\* The module as imported and never configured.
RouterImported ==
  /\ CLIENT = FALSE
  /\ CHANNEL_CONFIG = NoChannels
  /\ sends = [c \in ChannelIds |-> <<>>]
  /\ rcall = NoSend

\* The body of safe_send() up to its loop.
EnterSafeSend(call) ==
  IF ~CLIENT
  THEN [call EXCEPT !.pc = "done", !.result = Raises("RuntimeError")]
  ELSE [call EXCEPT !.pc = "loop", !.attempt = 0, !.last_error = None]

\* route_alert(alert), up to its call of safe_send().
RouteAlert(alert) ==
  /\ rcall.pc = "idle"
  /\ LET alert_type == AlertTypeOf(alert)
         call == [rcall EXCEPT !.op = "route_alert", !.alert = alert]
     IN IF alert_type \notin AlertTypes
        THEN rcall' = [call EXCEPT !.pc = "done",
                                   !.result = Raises("ValueError")]
        ELSE LET channel_id == ChannelOf(CHANNEL_CONFIG, alert_type)
             IN IF channel_id = 0
                THEN rcall' = [call EXCEPT !.pc = "done",
                                           !.result = Returns(None)]
                ELSE rcall' =
                       EnterSafeSend(
                         [call EXCEPT !.channel_id = channel_id,
                                      !.content = ContentOf(alert),
                                      !.max_attempts = DefaultMaxAttempts,
                                      !.base_delay = DefaultBaseDelay])
  /\ UNCHANGED <<CLIENT, CHANNEL_CONFIG, sends>>
  /\ UNCHANGED <<docVars, diskVars, jobVars, histVars, queryVars, fcall>>

\* safe_send(channel_id, content, max_attempts=..., base_delay=...) called
\* on its own, as OpsLogger.exception() calls it.
SafeSend(channel_id, content, max_attempts, base_delay) ==
  /\ rcall.pc = "idle"
  /\ rcall' = EnterSafeSend(
                [rcall EXCEPT !.op = "safe_send",
                              !.channel_id = channel_id,
                              !.content = content,
                              !.max_attempts = max_attempts,
                              !.base_delay = base_delay])
  /\ UNCHANGED <<CLIENT, CHANNEL_CONFIG, sends>>
  /\ UNCHANGED <<docVars, diskVars, jobVars, histVars, queryVars, fcall>>

\* What one pass through the try block can come to: the message that
\* channel.send() returned, an exception it raised, or the RuntimeError of
\* a channel the client does not resolve.
SendOutcomes ==
  {"message", "HTTPException", "DiscordServerError", "Forbidden",
   "NotFound", "unresolved"}

\* After an except clause that falls through: sleep unless this was the
\* last attempt.
AfterFailure(call, exc) ==
  [call EXCEPT !.last_error = exc,
               !.pc = IF call.attempt < call.max_attempts
                      THEN "sleep" ELSE "loop"]

\* One iteration of the loop of safe_send(), up to its sleep.
SendAttempt(outcome) ==
  /\ rcall.pc = "loop"
  /\ rcall.attempt < rcall.max_attempts
  /\ LET call == [rcall EXCEPT !.attempt = @ + 1,
                               !.thrown = IF outcome = "message" THEN None
                                          ELSE IF outcome = "unresolved"
                                          THEN "RuntimeError" ELSE outcome]
         exc == call.thrown
     IN /\ sends' = IF outcome = "unresolved" THEN sends
                    ELSE [sends EXCEPT ![rcall.channel_id] =
                                         Append(@, rcall.content)]
        /\ rcall' =
             IF outcome = "message"
             THEN [call EXCEPT !.pc = "done", !.result = Returns("message")]
             ELSE CASE ExceptClause(exc) = "api" -> AfterFailure(call, exc)
                    [] ExceptClause(exc) = "permission" ->
                         [call EXCEPT !.pc = "done", !.result = Raises(exc)]
                    [] ExceptClause(exc) = "unexpected" ->
                         AfterFailure(call, exc)
  /\ UNCHANGED <<CLIENT, CHANNEL_CONFIG>>
  /\ UNCHANGED <<docVars, diskVars, jobVars, histVars, queryVars, fcall>>

\* await asyncio.sleep(base_delay * (2 ** (attempt - 1)))
Sleep ==
  /\ rcall.pc = "sleep"
  /\ rcall' = [rcall EXCEPT !.pc = "loop",
                            !.slept = Append(@, Backoff(rcall.base_delay,
                                                        rcall.attempt))]
  /\ UNCHANGED <<CLIENT, CHANNEL_CONFIG, sends>>
  /\ UNCHANGED <<docVars, diskVars, jobVars, histVars, queryVars, fcall>>

\* The loop of safe_send() is left: raise the last error, if there is one.
Exhausted ==
  /\ rcall.pc = "loop"
  /\ rcall.attempt >= rcall.max_attempts
  /\ rcall' = [rcall EXCEPT !.pc = "done",
                            !.result = IF rcall.last_error /= None
                                       THEN Raises(rcall.last_error)
                                       ELSE Returns(None)]
  /\ UNCHANGED <<CLIENT, CHANNEL_CONFIG, sends>>
  /\ UNCHANGED <<docVars, diskVars, jobVars, histVars, queryVars, fcall>>

(***************************************************************************)
(* Specifications.                                                         *)
(***************************************************************************)
InitDisk ==
  /\ indexFile = NoIndexFile
  /\ metaFile = NoMetaFile
  /\ ipc = "idle"
  /\ runs = 0
  /\ existing_meta = EmptyMeta
  /\ ichunks = <<>>
  /\ ilog = NoLog
  /\ lastPayload = EmptyMeta
  /\ lastDocs = [d \in Docs |-> Absent]
  /\ aborted = NoAbort
  /\ encoded = <<>>

\* No function is being evaluated on its own.
NoCall ==
  [fn |-> "none", words |-> <<>>, chunk_tokens |-> 0, overlap |-> 0,
   chunks |-> <<>>, citations |-> <<>>, done |-> FALSE, value |-> <<>>,
   start |-> 0]

InitQuery ==
  /\ fcall = NoCall
  /\ State = InitState
  /\ lock = "free"
  /\ th = [t \in Threads |-> IdleThread]
  /\ ncalls = 0
  /\ nloads = 0

AllSet == [ollama_url |-> TRUE, openai_key |-> TRUE, openai_lib |-> TRUE]
Configs == [ollama_url : BOOLEAN, openai_key : BOOLEAN, openai_lib : BOOLEAN]

\* The ingestion job alone, over a source root that starts empty.
InitIngest ==
  /\ docs = [d \in Docs |-> Absent]
  /\ clock = 0
  /\ nedits = 0
  /\ InitDisk
  /\ InitQuery
  /\ config = AllSet
  /\ RouterImported

NextIngest ==
  \/ WriteDoc
  \/ RemoveDoc
  \/ IngestStep
  \/ IngestInterrupt

SpecIngest == InitIngest /\ [][NextIngest]_vars

\* A source root with a long and a short document.
StockedRoot ==
  [d \in Docs |-> IF d = PathA THEN FileOf([i \in 1..MaxWords |-> "a"], 0)
                  ELSE FileOf(<<"b">>, 0)]

\* Concurrent callers of search() and answer() in one process, while the
\* ingestion job runs and documents are removed.
Init ==
  /\ docs = StockedRoot
  /\ clock = 0
  /\ nedits = 0
  /\ InitDisk
  /\ InitQuery
  /\ config = AllSet
  /\ RouterImported

\* The callers here ask for no more than one result.
SmallKs == {0, 1}

Next ==
  \/ RemoveDoc
  \/ IngestStep
  \/ Call("t1", {"search", "answer"}, {"concise"}, SmallKs)
  \/ Call("t2", {"search"}, {"concise"}, SmallKs)
  \/ \E t \in Threads : QueryStep(t)

Spec == Init /\ [][Next]_vars

\* One caller at a time, under every configuration of the providers.
InitSeq ==
  /\ docs = StockedRoot
  /\ clock = 0
  /\ nedits = 0
  /\ InitDisk
  /\ InitQuery
  /\ config \in Configs
  /\ RouterImported

\* Nothing overlaps: the job runs between calls, a call between runs.
CallerIdle == th["t1"].pc = "idle"
JobIdle == ipc = "idle"

NextSeq ==
  \/ CallerIdle /\ RemoveDoc
  \/ CallerIdle /\ IngestStep
  \/ JobIdle /\ Call("t1", {"search", "answer"}, Styles, 0..MaxK)
  \/ JobIdle /\ QueryStep("t1")

SpecSeq == InitSeq /\ [][NextSeq]_vars

\* Two callers of search() at a time, between the runs of the job.
BothIdle == \A t \in Threads : th[t].pc = "idle"

NextPair ==
  \/ BothIdle /\ RemoveDoc
  \/ BothIdle /\ IngestStep
  \/ JobIdle /\ Call("t1", {"search"}, {"concise"}, SmallKs)
  \/ JobIdle /\ Call("t2", {"search"}, {"concise"}, SmallKs)
  \/ JobIdle /\ (\E t \in Threads : SearchStep(t))

SpecPair == Init /\ [][NextPair]_vars

(***************************************************************************)
(* The pure functions, each applied once to arguments drawn at the start.  *)
(***************************************************************************)
SeqsUpTo(S, n) == UNION {[1..m -> S] : m \in 0..n}

\* Chunks as _build_citations reads them: two documents whose stems give the
\* same shortname, two shortnames, two ordinals.
SomeChunks ==
  [doc_path : Docs, shortname : {<<"a">>, <<"b">>}, chunk : 0..1]

SomeCitations ==
  {[doc |-> PathName(PathA), shortname |-> <<"a">>, chunk |-> 0, label |-> l] :
     l \in {NoLabel, Label([shortname |-> <<"a">>, chunk |-> 0]),
            Label([shortname |-> <<"b">>, chunk |-> 1])}}

FnCalls ==
  {[NoCall EXCEPT !.fn = "chunk_text", !.words = w,
                  !.chunk_tokens = sz[1], !.overlap = sz[2]] :
     w \in SeqsUpTo(Words, MaxInputWords),
     sz \in {p \in (1..MaxChunkTokens) \X (0..MaxChunkTokens) : p[2] < p[1]}}
  \cup {[NoCall EXCEPT !.fn = "_build_citations", !.chunks = cs] :
          cs \in SeqsUpTo(SomeChunks, MaxHits)}
  \cup {[NoCall EXCEPT !.fn = "format_source_line", !.citations = cs] :
          cs \in SeqsUpTo(SomeCitations, MaxCitations)}

InitFn ==
  /\ docs = StockedRoot
  /\ clock = 0
  /\ nedits = 0
  /\ InitDisk
  /\ State = InitState
  /\ lock = "free"
  /\ th = [t \in Threads |-> IdleThread]
  /\ ncalls = 0
  /\ nloads = 0
  /\ config = AllSet
  /\ RouterImported
  /\ fcall \in FnCalls

Apply(fn, value) ==
  /\ fcall.fn = fn
  /\ ~fcall.done
  /\ fcall' = [fcall EXCEPT !.done = TRUE, !.value = value]
  /\ UNCHANGED <<docVars, diskVars, jobVars, histVars, queryVars, alertVars>>

ApplyChunkText ==
  Apply("chunk_text",
        ChunkText(fcall.words, fcall.chunk_tokens, fcall.overlap))

ApplyBuildCitations == Apply("_build_citations", BuildCitations(fcall.chunks))

ApplyFormatSourceLine ==
  Apply("format_source_line", FormatSourceLine(fcall.citations))

NextFn ==
  \/ ApplyChunkText
  \/ ApplyBuildCitations
  \/ ApplyFormatSourceLine

SpecFn == InitFn /\ [][NextFn]_vars

\* chunk_text() alone, one pass through its loop at a time.
InitLoop ==
  /\ docs = StockedRoot
  /\ clock = 0
  /\ nedits = 0
  /\ InitDisk
  /\ State = InitState
  /\ lock = "free"
  /\ th = [t \in Threads |-> IdleThread]
  /\ ncalls = 0
  /\ nloads = 0
  /\ config = AllSet
  /\ RouterImported
  /\ fcall \in {c \in FnCalls : c.fn = "chunk_text"}

\* The window of the pass after this one starts where this one ended.
NextStartWithoutOverlap(end, overlap) == end

\* start = end - overlap
NextStart(end, overlap) == end - overlap

\* One pass through the loop of chunk_text(): fcall.value is `chunks`.
ChunkTextIterate ==
  /\ fcall.fn = "chunk_text"
  /\ ~fcall.done
  /\ fcall.words /= <<>>
  /\ fcall.start < Len(fcall.words)
  /\ LET words == fcall.words
         end == Min(Len(words), fcall.start + fcall.chunk_tokens)
         chunk_words == SubSeq(words, fcall.start + 1, end)
     IN fcall' =
          IF chunk_words = <<>> THEN [fcall EXCEPT !.done = TRUE]
          ELSE IF end >= Len(words)
          THEN [fcall EXCEPT !.value = Append(@, chunk_words),
                             !.done = TRUE]
          ELSE [fcall EXCEPT !.value = Append(@, chunk_words),
                             !.start = NextStart(end, fcall.overlap)]
  /\ UNCHANGED <<docVars, diskVars, jobVars, histVars, queryVars, alertVars>>

\* chunk_text() returns: at once for a text without words, and when the
\* loop's condition fails.
ChunkTextReturn ==
  /\ fcall.fn = "chunk_text"
  /\ ~fcall.done
  /\ fcall.words = <<>> \/ ~(fcall.start < Len(fcall.words))
  /\ fcall' = [fcall EXCEPT !.done = TRUE]
  /\ UNCHANGED <<docVars, diskVars, jobVars, histVars, queryVars, alertVars>>

NextLoop ==
  \/ ChunkTextIterate
  \/ ChunkTextReturn

\* A call that can take a step takes it.
SpecLoop == InitLoop /\ [][NextLoop]_vars /\ WF_vars(NextLoop)

\* The alerts handed to route_alert(): of every type, in another case, of
\* no supported type, without a type; with a content, a message or neither.
Alerts ==
  [type : AlertTypes \cup {"DAY", "News", "unknown", "", None},
   content : {"Alert", None},
   message : {"Fallback", None}]

\* The largest max_attempts a caller of safe_send() passes here.
MaxAttempts == 4
BaseDelays == {1, 3}

\* One call of the router, configured or not, with any of the channels set.
InitRouter ==
  /\ docs = [d \in Docs |-> Absent]
  /\ clock = 0
  /\ nedits = 0
  /\ InitDisk
  /\ InitQuery
  /\ config = AllSet
  /\ CLIENT \in BOOLEAN
  /\ CHANNEL_CONFIG \in ChannelConfigs
  /\ sends = [c \in ChannelIds |-> <<>>]
  /\ rcall = NoSend

NextRouter ==
  \/ \E alert \in Alerts : RouteAlert(alert)
  \/ \E channel_id \in {111, 555}, max_attempts \in 0..MaxAttempts,
        base_delay \in BaseDelays :
       SafeSend(channel_id, "Alert", max_attempts, base_delay)
  \/ \E outcome \in SendOutcomes : SendAttempt(outcome)
  \/ Sleep
  \/ Exhausted

SpecRouter == InitRouter /\ [][NextRouter]_vars

(***************************************************************************)
(* Concurrent callers and the ingestion job (C1, C2, C3).                  *)
(***************************************************************************)
\* C1: a search that has scanned the index read the chunk list of the same
\* load: the length it took for top_k and every record it collected come from
\* the load whose index it scanned.
C1_SearchUsesOneLoad ==
  \A t \in Threads :
    th[t].scanned =>
      /\ th[t].lenLoad = th[t].idxLoad
      /\ \A i \in 1..Len(th[t].chunks) : th[t].chunks[i].load = th[t].idxLoad

\* C2: no call to search() or answer() ends in an exception because the
\* index is unavailable.
C2_NoRaiseForUnavailableIndex ==
  \A t \in Threads :
    ~(th[t].result.kind = "raise" /\ th[t].result.why = "index is None")

\* C3: whenever no load is under way, the index a query process holds and the
\* metadata it holds, if it holds both, were written by the same ingestion run.
C3_LoadedPairOfOneRun ==
  (lock = "free" /\ State.index.loaded /\ State.meta.updated > 0) =>
    State.index.gen = State.meta.updated

(***************************************************************************)
(* Ingestion: reuse, recomputation and removal (C4, C5, C6).               *)
(***************************************************************************)
Payload == metaFile.payload

SameSizeAndMtime(d) ==
  /\ docs[d].present
  /\ lastDocs[d].present
  /\ docs[d].size = lastDocs[d].size
  /\ docs[d].mtime = lastDocs[d].mtime

\* C4: when a run completes that directly follows a completed run, every
\* document whose size and modification time are those the earlier run found
\* has, in the metadata just persisted, exactly the chunk records (all
\* fields, same order) that the earlier run persisted for it.
C4_UnchangedDocKeepsRecords ==
  (ipc = "done" /\ lastPayload.updated > 0 /\ ~aborted.active) =>
    \A d \in Docs :
      SameSizeAndMtime(d) =>
        ChunksOfDoc(Payload.chunks, d) = ChunksOfDoc(lastPayload.chunks, d)

C4_Witness ==
  /\ ipc = "done"
  /\ lastPayload.updated > 0
  /\ ~aborted.active
  /\ \E d \in Docs :
       /\ SameSizeAndMtime(d)
       /\ ilog[d] = "reused"
       /\ Len(ChunksOfDoc(Payload.chunks, d)) >= 2
  /\ \E d \in Docs : docs[d].present /\ ~SameSizeAndMtime(d)

\* The stored fingerprint of d differs from the file: int(mtime) is compared,
\* as stored.
FingerprintDiffers(d) ==
  /\ d \in DOMAIN existing_meta.files
  /\ \/ existing_meta.files[d].size /= docs[d].size
     \/ existing_meta.files[d].mtime /= IntSeconds(docs[d].mtime)

C6_RemovedDocStillInMetadata ==
  ipc = "done" =>
    \A d \in Docs :
      (~docs[d].present /\ d \in DOMAIN lastPayload.files) =>
        /\ d \in DOMAIN Payload.files
        /\ ChunksOfDoc(Payload.chunks, d) = ChunksOfDoc(lastPayload.chunks, d)

\* C6 amended: every completed run rewrites the metadata from the documents
\* that are there; a document that is gone has neither a fingerprint nor a
\* chunk record in it.
C6_RemovedDocDropped ==
  ipc = "done" =>
    \A d \in Docs :
      ~docs[d].present =>
        /\ d \notin DOMAIN Payload.files
        /\ ChunksOfDoc(Payload.chunks, d) = <<>>

C6_Witness ==
  /\ ipc = "done"
  /\ \E d \in Docs :
       /\ ~docs[d].present
       /\ d \in DOMAIN lastPayload.files
       /\ ChunksOfDoc(lastPayload.chunks, d) /= <<>>
       /\ d \notin DOMAIN Payload.files

(***************************************************************************)
(* One call at a time: providers, sentinel, empty corpus (C7 .. C10).      *)
(***************************************************************************)
AnswerDone(t) == th[t].pc = "ret" /\ th[t].op = "answer"
SearchDone(t) == th[t].pc = "ret" /\ th[t].op = "search"

\* The call got hits and went on to _synthesise.
Synthesised(t) == AnswerDone(t) /\ th[t].hits /= <<>>

AttemptsOf(t, provider) ==
  {i \in 1..Len(th[t].attempts) : th[t].attempts[i].provider = provider}

PrimaryGaveText(t) ==
  \E i \in AttemptsOf(t, "primary") : th[t].attempts[i].outcome = "text"

IndexUnavailable == indexFile.state = "none" \/ metaFile.state = "none"
EmptyCorpus == IndexUnavailable \/ metaFile.payload.chunks = <<>>

\* C7 as stated: a call that synthesises attempts the primary provider first
\* and exactly once; the secondary at most once, only with its credential and
\* only after the primary failed or returned nothing.
C7_PrimaryExactlyOnce ==
  \A t \in Threads :
    Synthesised(t) =>
      /\ Cardinality(AttemptsOf(t, "primary")) = 1
      /\ th[t].attempts[1].provider = "primary"
      /\ Cardinality(AttemptsOf(t, "secondary")) <= 1
      /\ AttemptsOf(t, "secondary") /= {} =>
            /\ config.openai_key
            /\ th[t].attempts[1].outcome \in {"failed", "empty"}

\* C7 amended: a call that returns before synthesis attempts no provider.  A
\* call that synthesises attempts the primary first and exactly once when its
\* base URL is set, and not at all when it is not; it attempts the secondary,
\* once, exactly when the primary gave no text and the secondary's credential
\* and client library are both there.
C7_ProviderChain ==
  \A t \in Threads :
    AnswerDone(t) =>
      /\ ~Synthesised(t) => th[t].attempts = <<>>
      /\ Synthesised(t) =>
            /\ Cardinality(AttemptsOf(t, "primary"))
                 = (IF config.ollama_url THEN 1 ELSE 0)
            /\ config.ollama_url => th[t].attempts[1].provider = "primary"
            /\ Cardinality(AttemptsOf(t, "secondary")) <= 1
            /\ AttemptsOf(t, "secondary") /= {}
                 <=> (/\ ~PrimaryGaveText(t)
                      /\ config.openai_key
                      /\ config.openai_lib)

C7_Witness ==
  \E t \in Threads :
    /\ Synthesised(t)
    /\ Len(th[t].attempts) = 2
    /\ th[t].attempts[1] = [provider |-> "primary", outcome |-> "failed"]
    /\ th[t].attempts[2] = [provider |-> "secondary", outcome |-> "text"]

\* C8: answer() returns one and the same value, text "No strong match" with
\* no citations, when the index is unavailable and when search found hits but
\* no provider gave text.
C8_SameSentinel ==
  \A t \in Threads :
    (/\ AnswerDone(t)
     /\ \/ IndexUnavailable
        \/ /\ th[t].hits /= <<>>
           /\ \A i \in 1..Len(th[t].attempts) :
                th[t].attempts[i].outcome /= "text")
    => th[t].result =
         [kind |-> "dict", why |-> "", list |-> <<>>,
          dict |-> [text |-> <<Tok("No strong match")>>, citations |-> <<>>,
                    chunks |-> <<>>]]

C8_Witness ==
  \E t \in Threads :
    /\ AnswerDone(t)
    /\ ~IndexUnavailable
    /\ th[t].hits /= <<>>
    /\ Len(th[t].attempts) = 2
    /\ \A i \in 1..2 : th[t].attempts[i].outcome = "failed"

\* C9 as stated: on an empty corpus answer() returns the dict of exactly the
\* two keys text and citations, and attempts no provider.
C9_ExactlyTextAndCitations ==
  \A t \in Threads :
    (AnswerDone(t) /\ EmptyCorpus) =>
      /\ th[t].result.kind = "dict"
      /\ th[t].result.dict =
           [text |-> <<Tok("No strong match")>>, citations |-> <<>>]
      /\ th[t].attempts = <<>>

\* C9 amended: on an empty corpus answer() returns, for every query, k and
\* style, the dict of text "No strong match", citations [] and chunks [], and
\* attempts no provider.
C9_EmptyCorpusSentinel ==
  \A t \in Threads :
    (AnswerDone(t) /\ EmptyCorpus) =>
      /\ th[t].result.kind = "dict"
      /\ th[t].result.dict =
           [text |-> <<Tok("No strong match")>>, citations |-> <<>>,
            chunks |-> <<>>]
      /\ th[t].attempts = <<>>

\* The corpus is empty after an earlier load: the index file is gone again.
C9_Witness ==
  \E t \in Threads :
    /\ AnswerDone(t)
    /\ EmptyCorpus
    /\ th[t].q /= <<>>
    /\ th[t].k > 0
    /\ nloads > 0

\* C10: search() of a blank query, and search() on an empty corpus, return
\* the empty list and neither embed the query nor scan the index.
C10_BlankOrEmptyCorpusSearch ==
  \A t \in Threads :
    (SearchDone(t) /\ (Strip(th[t].q) = <<>> \/ EmptyCorpus)) =>
      /\ th[t].result.kind = "list"
      /\ th[t].result.list = <<>>
      /\ ~th[t].embedded
      /\ ~th[t].scanned

C10_Witness ==
  \E t \in Threads :
    /\ SearchDone(t)
    /\ EmptyCorpus
    /\ Strip(th[t].q) /= <<>>
    /\ th[t].k > 0
    /\ nloads > 0

(***************************************************************************)
(* Fail-soft search, ranking, chunking, citations (C11 .. C17).            *)
(***************************************************************************)
\* C11: a search() that begins and ends while no load has ever begun, or
\* after an ingestion run that produced zero chunks and before the next run,
\* returns the empty list, whatever the process had loaded before that run
\* and whatever other callers do meanwhile.
C11_EmptyAfterZeroChunkRun ==
  \A t \in Threads :
    (/\ SearchDone(t)
     /\ \/ nloads = 0
        \/ th[t].afterEmptyRun /\ EmptyRunDone)
    => /\ th[t].result.kind = "list"
       /\ th[t].result.list = <<>>

\* A search made after the zero-chunk run returns while the other caller,
\* which loaded the earlier non-empty index, is still collecting its hits.
C11_Witness ==
  \E t, u \in Threads :
    /\ SearchDone(t)
    /\ th[t].afterEmptyRun
    /\ EmptyRunDone
    /\ Strip(th[t].q) /= <<>>
    /\ th[t].k > 0
    /\ u /= t
    /\ ~th[u].afterEmptyRun
    /\ th[u].scanned
    /\ th[u].chunks /= <<>>

NonIncreasing(chunks) ==
  \A i \in 1..(Len(chunks) - 1) : chunks[i].score >= chunks[i + 1].score

\* C12: every search(q, k) with k >= 0 returns a list of at most k chunks
\* whose scores do not increase along the list.
C12_AtMostKSorted ==
  \A t \in Threads :
    SearchDone(t) =>
      /\ th[t].result.kind = "list"
      /\ Len(th[t].result.list) <= th[t].k
      /\ NonIncreasing(th[t].result.list)

\* lexical_score, in percent: partial_ratio of the query and the head of the
\* chunk text.
Lexical(q, text) ==
  PartialRatio(q, SubSeq(JoinChars(text), 1,
                         Min(LexPrefix, Len(JoinChars(text)))))

SameChunk(a, b) == a.doc_path = b.doc_path /\ a.chunk = b.chunk

Corpus == metaFile.payload.chunks

C15_CitationsEnsured ==
  \A t \in Threads :
    (/\ th[t].pc = "ret"
     /\ th[t].result.kind = "dict"
     /\ th[t].result.dict.text /= SentinelText) =>
      LET text == th[t].result.dict.text
          cits == th[t].result.dict.citations
          given == StripTokens(th[t].provided)
          missing == SelectSeq([i \in 1..Len(cits) |-> cits[i].label],
                               LAMBDA l : ~InText(l, given))
          rest == SubSeq(text, Len(given) + 1, Len(text))
      IN /\ \A i \in 1..Len(cits) : InText(cits[i].label, text)
         /\ Len(text) >= Len(given)
         /\ SubSeq(text, 1, Len(given)) = given
         /\ missing = <<>> => rest = <<>>
         /\ missing /= <<>> =>
              /\ Len(rest) = 4 + 3 * Len(missing) - 2
              /\ rest[1] \in {Tok(" "), Tok("\n")}
              /\ SubSeq(rest, 2, 4) = <<Tok(" "), Tok("Sources:"), Tok(" ")>>
              /\ \A i \in 1..Len(missing) : rest[3 * i + 2] = missing[i]
              /\ \A i \in 1..(Len(missing) - 1) :
                   SubSeq(rest, 3 * i + 3, 3 * i + 4) = <<Tok(","), Tok(" ")>>

\* Two citations, the reply names the first: the second alone is appended.
C15_Witness ==
  \E t \in Threads :
    /\ th[t].pc = "ret"
    /\ th[t].result.kind = "dict"
    /\ Len(th[t].result.dict.citations) = 2
    /\ InText(th[t].result.dict.citations[1].label, th[t].provided)
    /\ ~InText(th[t].result.dict.citations[2].label, th[t].provided)
    /\ th[t].result.dict.text[Len(th[t].result.dict.text)]
         = th[t].result.dict.citations[2].label
    /\ Len(th[t].result.dict.text) = Len(StripTokens(th[t].provided)) + 5

Returned(fn) == fcall.fn = fn /\ fcall.done

\* The words of the chunks once each later chunk has lost its first n words.
RECURSIVE Unlapped(_, _)
Unlapped(chunks, n) ==
  IF chunks = <<>> THEN <<>>
  ELSE IF Len(chunks) = 1 THEN chunks[1]
  ELSE chunks[1]
         \o Unlapped(<<SubSeq(chunks[2], n + 1, Len(chunks[2]))>>
                       \o SubSeq(chunks, 3, Len(chunks)), n)

\* C14: for 0 <= overlap < chunk size, the chunks of chunk_text are windows
\* of the input in order that cover it: each chunk is non-empty and no longer
\* than the chunk size, each later chunk begins with the last `overlap` words
\* of the one before, and the chunks with those repeated words removed are
\* the input, word for word.
C14_ChunksCoverWithOverlap ==
  Returned("chunk_text") =>
    LET chunks == fcall.value
        n == fcall.overlap
    IN /\ \A i \in 1..Len(chunks) :
            Len(chunks[i]) \in 1..fcall.chunk_tokens
       /\ \A i \in 1..(Len(chunks) - 1) :
            /\ Len(chunks[i]) >= n
            /\ Len(chunks[i + 1]) > n
            /\ SubSeq(chunks[i], Len(chunks[i]) - n + 1, Len(chunks[i]))
                 = SubSeq(chunks[i + 1], 1, n)
       /\ Unlapped(chunks, n) = fcall.words

\* Three chunks that overlap, the last one short.
C14_Witness ==
  /\ Returned("chunk_text")
  /\ fcall.overlap > 0
  /\ Len(fcall.value) >= 3
  /\ Len(fcall.value[Len(fcall.value)]) < fcall.chunk_tokens

Key(c) == <<c.shortname, c.chunk>>

\* The position of the first chunk with the key of chunks[j].
FirstWith(chunks, j) ==
  CHOOSE i \in 1..j :
    /\ Key(chunks[i]) = Key(chunks[j])
    /\ \A h \in 1..(i - 1) : Key(chunks[h]) /= Key(chunks[j])

\* C16: _build_citations gives one citation per distinct (shortname,
\* ordinal) among the chunks, in the order of first occurrence, each made
\* from the first chunk with that key, whatever the documents of the chunks.
C16_OneCitationPerLabel ==
  Returned("_build_citations") =>
    LET chunks == fcall.chunks
        cits == fcall.value
    IN /\ \A i, j \in 1..Len(cits) : i /= j => Key(cits[i]) /= Key(cits[j])
       /\ \A j \in 1..Len(chunks) :
            \E i \in 1..Len(cits) : Key(cits[i]) = Key(chunks[j])
       /\ \A i \in 1..Len(cits) :
            \E j \in 1..Len(chunks) :
              /\ FirstWith(chunks, j) = j
              /\ Key(cits[i]) = Key(chunks[j])
              /\ cits[i].doc = PathName(chunks[j].doc_path)
              /\ cits[i].label = Label(chunks[j])
              /\ \A h \in 1..(i - 1) :
                   \E g \in 1..(j - 1) : Key(cits[h]) = Key(chunks[g])

\* Two chunks of different documents with one label, between them a chunk
\* with another: two citations, the first from the first document.
C16_Witness ==
  /\ Returned("_build_citations")
  /\ Len(fcall.chunks) = 3
  /\ Key(fcall.chunks[1]) = Key(fcall.chunks[3])
  /\ Key(fcall.chunks[1]) /= Key(fcall.chunks[2])
  /\ fcall.chunks[1].doc_path /= fcall.chunks[3].doc_path
  /\ Len(fcall.value) = 2
  /\ fcall.value[1].doc = PathName(fcall.chunks[1].doc_path)

\* The labels that are not empty and have not occurred before, in order.
FirstSeen(citations) ==
  LET keep == SelectSeq([i \in 1..Len(citations) |-> i],
                        LAMBDA i :
                          /\ citations[i].label /= NoLabel
                          /\ \A j \in 1..(i - 1) :
                               citations[j].label /= citations[i].label)
  IN [i \in 1..Len(keep) |-> citations[keep[i]].label]

\* C17: format_source_line gives "" when no citation has a label, the empty
\* list included; otherwise "Sources: " and the labels, each once, in the
\* order they are first seen, joined by ", ".
C17_SourceLine ==
  Returned("format_source_line") =>
    LET labels == FirstSeen(fcall.citations)
    IN /\ labels = <<>> => fcall.value = <<>>
       /\ labels /= <<>> =>
            /\ Len(fcall.value) = 2 + 3 * Len(labels) - 2
            /\ fcall.value[1] = Tok("Sources:")
            /\ fcall.value[2] = Tok(" ")
            /\ \A i \in 1..Len(labels) : fcall.value[3 * i] = labels[i]
            /\ \A i \in 1..(Len(labels) - 1) :
                 /\ fcall.value[3 * i + 1] = Tok(",")
                 /\ fcall.value[3 * i + 2] = Tok(" ")

\* A repeated label, a citation without one, and a second label.
C17_Witness ==
  /\ Returned("format_source_line")
  /\ Len(fcall.citations) = 4
  /\ fcall.citations[1].label = fcall.citations[3].label
  /\ fcall.citations[2].label = NoLabel
  /\ fcall.citations[1].label /= NoLabel
  /\ Len(FirstSeen(fcall.citations)) = 2
  /\ Len(fcall.value) = 6

(***************************************************************************)
(* Loading, reloading and re-running (C18, C19, C20).                      *)
(***************************************************************************)
\* Between faiss.read_index and the recording of the modification times.
Loading(t) == th[t].pc \in {"readindex", "readmeta", "stat"}

\* C18: no two callers are loading the index at the same time.
C18_OneLoadAtATime ==
  \A t, u \in Threads : (Loading(t) /\ Loading(u)) => t = u

\* One caller is loading while the other waits to enter ensure().
C18_Witness ==
  \E t, u \in Threads :
    /\ t /= u
    /\ Loading(t)
    /\ lock = t
    /\ th[u].pc = "ensure"

\* C19: a load ends with the in-memory state read from the current
\* artifacts, and no later call reloads while their modification times are
\* the cached ones: so whenever nobody is loading and both artifacts are
\* whole and carry the cached modification times, the index and the metadata
\* in memory are the ones on disk.
C19_CachedTimesMeanCurrentState ==
  (/\ lock = "free"
   /\ State.index.loaded
   /\ indexFile.state = "ok"
   /\ metaFile.state = "ok"
   /\ ~MetaChanged) =>
    /\ State.index.gen = indexFile.gen
    /\ State.index.vecs = indexFile.vecs
    /\ State.meta = metaFile.payload
    /\ State.chunk_cache.chunks = metaFile.payload.chunks

\* The stored fingerprint of d in meta is that of the file, and meta has
\* chunk records of d.
Reusable(d, meta) ==
  /\ d \in DOMAIN meta.files
  /\ meta.files[d].size = docs[d].size
  /\ meta.files[d].mtime = IntSeconds(docs[d].mtime)
  /\ ChunksOfDoc(meta.chunks, d) /= <<>>

\* The records of d a run leaves that starts from meta and is not interrupted.
ExpectedOfDoc(d, meta) ==
  IF ~docs[d].present THEN <<>>
  ELSE IF Reusable(d, meta) THEN ChunksOfDoc(meta.chunks, d)
  ELSE FreshChunks(d, docs[d].text)

\* The persisted records and fingerprints are those of such a run.
AsUninterrupted(meta) ==
  \A d \in Docs :
    /\ ChunksOfDoc(Payload.chunks, d) = ExpectedOfDoc(d, meta)
    /\ d \in DOMAIN Payload.files <=> ExpectedOfDoc(d, meta) /= <<>>
    /\ d \in DOMAIN Payload.files =>
         Payload.files[d] = [size |-> docs[d].size,
                             mtime |-> IntSeconds(docs[d].mtime)]

\* A run has completed that re-ran an interrupted one over the same documents.
Rerun == ipc = "done" /\ aborted.active /\ docs = aborted.docs

\* A run has completed over the documents of the completed run before it.
Repeated ==
  /\ ipc = "done"
  /\ ~aborted.active
  /\ lastPayload.updated > 0
  /\ docs = lastDocs

RepeatChangesNothing ==
  Repeated =>
    /\ Payload.chunks = lastPayload.chunks
    /\ Payload.files = lastPayload.files

C21_ReusedNotEmbedded ==
  \A d \in Docs :
    ilog[d] = "reused" => ChunksOfDoc(encoded, d) = <<>>

\* C22: in meta.json as ingestion wrote it, the chunk records of each
\* document carry the ordinals 0, 1, ..., n-1, in this order.
C22_OrdinalsContiguous ==
  metaFile.state = "ok" =>
    \A d \in Docs :
      LET records == ChunksOfDoc(Payload.chunks, d)
      IN \A i \in 1..Len(records) : records[i].chunk = i - 1

\* A later run has written the metadata: one document reused with several
\* chunks, another extracted.
C22_Witness ==
  /\ metaFile.state = "ok"
  /\ ipc = "done"
  /\ \E d, e \in Docs :
       /\ ilog[d] = "reused"
       /\ Len(ChunksOfDoc(Payload.chunks, d)) >= 2
       /\ ilog[e] = "extracted"
       /\ ChunksOfDoc(Payload.chunks, e) /= <<>>

\* C29: in meta.json as ingestion wrote it, the fingerprint map has exactly
\* the documents that have chunk records; and a run never reuses a document
\* that is there and yields no chunk: once build_chunks is through, it has
\* extracted it.
C29_FingerprintsOfChunkedDocs ==
  /\ metaFile.state = "ok" =>
       DOMAIN Payload.files
         = {Payload.chunks[i].doc_path : i \in 1..Len(Payload.chunks)}
  /\ \A d \in Docs :
       (/\ ipc \in {"built", "unlinked", "iwriting", "isaved", "mwriting",
                    "done"}
        /\ docs[d].present
        /\ FreshChunks(d, docs[d].text) = <<>>) =>
         ilog[d] = "extracted"

\* A document without text that the completed run before found as it is now
\* was extracted again and has no fingerprint; the other document has one.
C29_Witness ==
  /\ ipc = "done"
  /\ lastPayload.updated > 0
  /\ \E d, e \in Docs :
       /\ SameSizeAndMtime(d)
       /\ docs[d].text = <<>>
       /\ ilog[d] = "extracted"
       /\ d \notin DOMAIN Payload.files
       /\ e \in DOMAIN Payload.files

(***************************************************************************)
(* Failed loads and candidate positions (C27, C30).                        *)
(***************************************************************************)
\* C27: whenever no load is under way, the index and the chunk list in
\* memory are those of one load, or both are empty: a load that failed has
\* left nothing of its own next to what an earlier load left.
C27_FailedLoadLeavesNoMix ==
  lock = "free" =>
    \/ ~State.index.loaded /\ State.chunk_cache.chunks = <<>>
    \/ State.index.loaded /\ State.index.load = State.chunk_cache.load

\* C30: a search that has the positions from the index does not fail on
\* them: every position is either dropped or read from the chunk list, and
\* the chunks it holds are no more than the positions it was given.
C30_PositionsDroppedOrRead ==
  \A t \in Threads :
    th[t].scanned =>
      /\ th[t].result.kind /= "raise"
      /\ Len(th[t].chunks) + Len(th[t].indices) <= th[t].top_k

(***************************************************************************)
(* The alert router (C23, C24, C25, C26).                                  *)
(***************************************************************************)
\* The channel configured for a type, by the routing table as it is
\* documented.
RoutedTo(alert_type) ==
  CHANNEL_CONFIG[CASE alert_type = "day" -> "day_trade_alerts"
                   [] alert_type = "swing" -> "swing_alerts"
                   [] alert_type = "leaps" -> "leaps_alerts"
                   [] alert_type = "long_term" -> "long_term_alerts"
                   [] alert_type = "news" -> "news_feed"]

\* route_alert() was called, by a configured router, with an alert that
\* has a content, a supported type and a channel configured for the type.
Routable ==
  /\ rcall.op = "route_alert"
  /\ CLIENT
  /\ rcall.alert.type \in {"day", "swing", "leaps", "long_term", "news"}
  /\ rcall.alert.content /= None
  /\ RoutedTo(rcall.alert.type) /= 0

NothingSentBut(channel_id) ==
  \A c \in ChannelIds \ {channel_id} : sends[c] = <<>>

\* C23, as stated: when route_alert() has finished, the alert's content was
\* sent exactly once to the channel configured for the alert's type, and
\* nothing was sent to any other channel.
C23_SentExactlyOnce ==
  (Routable /\ rcall.pc = "done") =>
    /\ sends[RoutedTo(rcall.alert.type)] = <<rcall.alert.content>>
    /\ NothingSentBut(RoutedTo(rcall.alert.type))

\* C23, amended: route_alert() sends the alert's content to the channel
\* configured for the alert's type and nothing to any other channel; it
\* sends no more than four times, at least once when it returns a message,
\* and exactly once when the first attempt returns the message.
C23_SentToConfiguredChannelOnly ==
  Routable =>
    LET to == sends[RoutedTo(rcall.alert.type)]
    IN /\ NothingSentBut(RoutedTo(rcall.alert.type))
       /\ \A i \in 1..Len(to) : to[i] = rcall.alert.content
       /\ Len(to) <= 4
       /\ (rcall.pc = "done" /\ rcall.result = Returns("message")) =>
            /\ Len(to) >= 1
            /\ rcall.attempt = 1 => to = <<rcall.alert.content>>

\* A news alert went, at the first attempt, to the news channel of a
\* router that has a day channel too.
C23_Witness ==
  /\ Routable
  /\ rcall.pc = "done"
  /\ rcall.alert.type = "news"
  /\ CHANNEL_CONFIG["day_trade_alerts"] /= 0
  /\ rcall.result = Returns("message")
  /\ rcall.attempt = 1
  /\ sends[555] = <<"Alert">>


\* C24: route_alert() with a type that is not a supported alert type, or
\* with no type, raises ValueError and sends no message to any channel.
C24_UnsupportedTypeRaises ==
  (/\ rcall.op = "route_alert"
   /\ rcall.alert.type \in {"unknown", "", None}) =>
    /\ rcall.pc = "done"
    /\ rcall.result = Raises("ValueError")
    /\ \A c \in ChannelIds : sends[c] = <<>>

\* An alert without a type was refused by a router that has a client and
\* every channel.
C24_Witness ==
  /\ rcall.op = "route_alert"
  /\ rcall.pc = "done"
  /\ rcall.alert.type = None
  /\ rcall.alert.content = "Alert"
  /\ CLIENT
  /\ \A k \in ChannelKeys : CHANNEL_CONFIG[k] /= 0
  /\ rcall.result = Raises("ValueError")


\* C25: safe_send() makes at most max_attempts attempts; an attempt that
\* succeeds ends the call with its result; after the n-th failed attempt
\* it waits base_delay * 2^(n-1), except after the last one; when all
\* max_attempts attempts failed it raises the error of the last.
C25_BoundedRetries ==
  (rcall.op /= "none" /\ CLIENT) =>
    /\ rcall.attempt <= rcall.max_attempts
    /\ \A i \in 1..Len(rcall.slept) :
         rcall.slept[i] = rcall.base_delay * (2 ^ (i - 1))
    /\ Len(rcall.slept) < rcall.max_attempts \/ rcall.slept = <<>>
    /\ rcall.attempt >= 1 =>
         /\ Len(rcall.slept) \in {rcall.attempt - 1, rcall.attempt}
         /\ rcall.pc \in {"sleep", "done"} =>
              Len(rcall.slept) = rcall.attempt - 1
         /\ rcall.thrown = None =>
              rcall.pc = "done" /\ rcall.result = Returns("message")
         /\ (rcall.pc = "done" /\ rcall.thrown /= None) =>
              /\ rcall.attempt = rcall.max_attempts
              /\ rcall.result = Raises(rcall.thrown)

\* Four attempts failed: three waits, doubling, and the last error raised.
C25_Witness ==
  /\ rcall.op = "safe_send"
  /\ CLIENT
  /\ rcall.pc = "done"
  /\ rcall.max_attempts = 4
  /\ rcall.attempt = 4
  /\ rcall.base_delay = 3
  /\ rcall.slept = <<3, 6, 12>>
  /\ rcall.result = Raises("DiscordServerError")
  /\ Len(sends[rcall.channel_id]) = 3


\* C26: an attempt that fails with Forbidden or NotFound is the last: no
\* wait and no attempt follows it, and the call ends raising that error.
C26_PermissionErrorRaisedAtOnce ==
  rcall.thrown \in {"Forbidden", "NotFound"} =>
    /\ rcall.pc /= "sleep"
    /\ Len(rcall.slept) = rcall.attempt - 1
    /\ rcall.pc = "done" => rcall.result = Raises(rcall.thrown)

(***************************************************************************)
(* The loop of chunk_text (C28).                                           *)
(***************************************************************************)
\* The least n >= 1 with size + (n - 1) * (size - overlap) >= length.
LeastCount(length, size, overlap) ==
  CHOOSE n \in 1..length :
    /\ size + (n - 1) * (size - overlap) >= length
    /\ \A m \in 1..(n - 1) : size + (m - 1) * (size - overlap) < length

\* C28: for 0 <= overlap < chunk size chunk_text() terminates: every pass
\* of its loop that does not end the call moves the window start forward,
\* the call ends, and it ends with no chunk for a text without words and
\* else with the least number n >= 1 of chunks for which
\* chunk_size + (n - 1) * (chunk_size - overlap) >= number of words.
C28_ChunkTextTerminates ==
  /\ [][~fcall'.done => fcall'.start > fcall.start]_fcall
  /\ <>fcall.done
  /\ [](fcall.done =>
          Len(fcall.value) =
            IF fcall.words = <<>> THEN 0
            ELSE LeastCount(Len(fcall.words), fcall.chunk_tokens,
                            fcall.overlap))

\* Six words in windows of three that overlap by two: four chunks, the
\* last window starting at the fourth word.
C28_Witness ==
  /\ fcall.fn = "chunk_text"
  /\ fcall.done
  /\ Len(fcall.words) = 6
  /\ fcall.chunk_tokens = 3
  /\ fcall.overlap = 2
  /\ fcall.start = 3
  /\ Len(fcall.value) = 4

=============================================================================
